---- MODULE Spec2Model ----
(***************************************************************************)
(* A model of GifTiffLoader (GifTiffLoader/GifTiffLoader.py): bit-depth    *)
(* conversion, the 16-bit <-> RGB packing, datatype detection, the         *)
(* sequence file naming and the sequence / monolithic loaders.             *)
(*                                                                         *)
(* Pixels are mathematical integers; arrays are flattened to sequences of  *)
(* pixels.  File names and the StartStop text are sequences of one-        *)
(* character strings, so that formatting and parsing are real operations.  *)
(* numpy's float64 arithmetic is modelled bit for bit (53-bit mantissa,    *)
(* round to nearest, ties to even) on sequences of bits.                   *)
(***************************************************************************)
EXTENDS Integers, Sequences, FiniteSets, TLC

VARIABLES
    call,       \* the call made (function and arguments), or NoCall
    ret,        \* what that call returned or raised, or NoRet
    files,      \* the image files on disk: name -> frames
    dirs        \* the directories that exist

vars == <<call, ret, files, dirs>>

\* an optional integer argument: <<>> is Python's None, <<v>> the integer v
None == <<>>

Some(v) == <<v>>

\* no call made yet / nothing returned yet
NoCall == [fn |-> "none"]

NoRet == [status |-> "none"]

(***************************************************************************)
(* Small helpers on integers and sequences.                                *)
(***************************************************************************)
RECURSIVE Pow2(_)
Pow2(n) == IF n = 0 THEN 1 ELSE 2 * Pow2(n - 1)

IntAbs(x) == IF x < 0 THEN -x ELSE x

IntMin(x, y) == IF x < y THEN x ELSE y

IntMax(x, y) == IF x < y THEN y ELSE x


\* arr.min() / arr.max() of a non-empty array
ArrMin(arr) ==
    CHOOSE x \in {arr[i] : i \in DOMAIN arr} : \A i \in DOMAIN arr : x <= arr[i]

ArrMax(arr) ==
    CHOOSE x \in {arr[i] : i \in DOMAIN arr} : \A i \in DOMAIN arr : x >= arr[i]

\* numpy's clip: minimum(a_max, maximum(a, a_min)), also when a_min > a_max
NpClip(arr, lo, hi) == [i \in DOMAIN arr |-> IntMin(hi, IntMax(arr[i], lo))]

NpAbsolute(arr) == [i \in DOMAIN arr |-> IntAbs(arr[i])]

(***************************************************************************)
(* IEEE-754 binary64.  A finite non-zero double is                         *)
(*   [k |-> "fin", neg, e, m]:  (-1)^neg * 1.m[2..53] * 2^e               *)
(* with m a sequence of MantBits bits, most significant (always 1) first.  *)
(***************************************************************************)
MantBits == 53

FZero == [k |-> "zero"]

FInf(neg) == [k |-> "inf", neg |-> neg]

FNan == [k |-> "nan"]

\* smallest s with c * 2^s >= d   (0 < c < d)
RECURSIVE ShiftUp(_, _, _)
ShiftUp(c, d, s) == IF c >= d THEN s ELSE ShiftUp(2 * c, d, s + 1)

\* largest s with d * 2^s <= c   (0 < d <= c)
RECURSIVE ShiftDown(_, _, _)
ShiftDown(c, d, s) == IF 2 * d > c THEN s ELSE ShiftDown(c, 2 * d, s + 1)

\* Long division and multiplication go LimbBits bits at a time, so that
\* every intermediate value stays below 2^31 (for operands below 2^17).
LimbBits == 13

Limb == Pow2(LimbBits)

LimbToBits(x) == [j \in 1..LimbBits |-> (x \div Pow2(LimbBits - j)) % 2]

\* the next k base-Limb digits of rem / d, for 0 <= rem < d
RECURSIVE QuotDigits(_, _, _)
QuotDigits(rem, d, k) ==
    IF k = 0 THEN <<>>
    ELSE <<(rem * Limb) \div d>> \o QuotDigits((rem * Limb) % d, d, k - 1)

\* the remainder left after those k digits
RECURSIVE QuotRem(_, _, _)
QuotRem(rem, d, k) ==
    IF k = 0 THEN rem ELSE QuotRem((rem * Limb) % d, d, k - 1)

\* a sequence of digits as one sequence of bits
RECURSIVE DigitsToBits(_)
DigitsToBits(ds) ==
    IF ds = <<>> THEN <<>> ELSE LimbToBits(Head(ds)) \o DigitsToBits(Tail(ds))

\* bits + 1, same length (bits not all ones: the caller handles that)
BitsInc(bits) ==
    LET z == CHOOSE i \in DOMAIN bits :
                 bits[i] = 0 /\ \A j \in DOMAIN bits : j > i => bits[j] = 1
    IN  [i \in DOMAIN bits |-> IF i < z THEN bits[i] ELSE IF i = z THEN 1 ELSE 0]

AllOnes(bits) == \A i \in DOMAIN bits : bits[i] = 1

\* round to nearest, ties to even: top holds MantBits bits, then the round
\* bit and whether anything non-zero follows it
RoundNearestEven(neg, e, top, roundBit, sticky) ==
    IF roundBit = 1 /\ (sticky \/ top[MantBits] = 1)
    THEN IF AllOnes(top)
         THEN [k |-> "fin", neg |-> neg, e |-> e + 1,
               m |-> <<1>> \o [i \in 1..(MantBits - 1) |-> 0]]
         ELSE [k |-> "fin", neg |-> neg, e |-> e, m |-> BitsInc(top)]
    ELSE [k |-> "fin", neg |-> neg, e |-> e, m |-> top]

\* float(c) / d for integers c, d with d # 0: one correctly rounded division.
\* n / dd is the quotient scaled into [1, 2): a leading 1, then the bits of
\* (n - dd) / dd, of which MantBits - 1 are kept, one is the round bit and
\* the rest (with the remainder) are sticky.
FDivPos(c, d, neg) ==
    LET up == c < d
        s  == IF up THEN ShiftUp(c, d, 0) ELSE ShiftDown(c, d, 0)
        n  == IF up THEN c * Pow2(s) ELSE c
        dd == IF up THEN d ELSE d * Pow2(s)
        e  == IF up THEN -s ELSE s
        q  == DigitsToBits(QuotDigits(n - dd, dd, 5))
        r  == QuotRem(n - dd, dd, 5)
    IN  RoundNearestEven(neg, e, <<1>> \o SubSeq(q, 1, MantBits - 1),
                         q[MantBits],
                         r # 0 \/ \E j \in (MantBits + 1)..Len(q) : q[j] = 1)

FDiv(c, d) ==
    IF c = 0 THEN FZero
    ELSE FDivPos(IntAbs(c), IntAbs(d), (c < 0) # (d < 0))

\* binary digits of a natural number, most significant first (<<>> for 0)
RECURSIVE NatBits(_)
NatBits(n) == IF n = 0 THEN <<>> ELSE NatBits(n \div 2) \o <<n % 2>>

RECURSIVE BitsNat(_)
BitsNat(bits) ==
    IF bits = <<>> THEN 0
    ELSE 2 * BitsNat(SubSeq(bits, 1, Len(bits) - 1)) + bits[Len(bits)]

\* the digits ds (most significant first) times v plus carry, as digits
\* below Limb with the last carry in front
RECURSIVE MulDigits(_, _, _)
MulDigits(ds, v, carry) ==
    IF ds = <<>> THEN <<carry>>
    ELSE LET t == ds[Len(ds)] * v + carry
         IN  MulDigits(SubSeq(ds, 1, Len(ds) - 1), v, t \div Limb) \o <<t % Limb>>

\* a sequence of 1 + 4 * LimbBits bits as its leading bit and four digits
BitsToDigits(bits) ==
    <<bits[1]>> \o [k \in 1..4 |->
        BitsNat(SubSeq(bits, 2 + LimbBits * (k - 1), 1 + LimbBits * k))]

\* the exact product bits * v as a bit sequence without leading zeros
\* (v >= 1, bits[1] = 1)
MulBits(bits, v) ==
    LET p == MulDigits(BitsToDigits(bits), v, 0)
    IN  NatBits(p[1] * Limb + p[2]) \o DigitsToBits(SubSeq(p, 3, Len(p)))

\* float(v) * x for an integer v: one correctly rounded multiplication
FMulInt(v, x) ==
    CASE x.k = "nan" -> FNan
      [] x.k = "zero" -> FZero
      [] x.k = "inf" -> IF v = 0 THEN FNan ELSE FInf((v < 0) # x.neg)
      [] OTHER ->
          IF v = 0 THEN FZero
          ELSE LET p   == MulBits(x.m, IntAbs(v))
                   n   == Len(p)
                   neg == (v < 0) # x.neg
               IN  IF n = MantBits
                   THEN [k |-> "fin", neg |-> neg, e |-> x.e, m |-> p]
                   ELSE RoundNearestEven(neg, x.e + (n - MantBits),
                            SubSeq(p, 1, MantBits), p[MantBits + 1],
                            \E j \in (MantBits + 2)..n : p[j] = 1)

\* float(v) for an integer v small enough to be exact
FOfInt(v) ==
    IF v = 0 THEN FZero
    ELSE LET b == NatBits(IntAbs(v))
         IN  [k |-> "fin", neg |-> v < 0, e |-> Len(b) - 1,
              m |-> b \o [i \in 1..(MantBits - Len(b)) |-> 0]]

\* x < 1.0
FLessOne(x) ==
    CASE x.k = "nan" -> FALSE
      [] x.k = "zero" -> TRUE
      [] x.k = "inf" -> x.neg
      [] OTHER -> x.neg \/ x.e < 0

\* the integer part of |x| and whether |x| has a fractional part
FIntPart(x) ==
    IF x.k # "fin" \/ x.e < 0 THEN 0 ELSE BitsNat(SubSeq(x.m, 1, x.e + 1))

FHasFrac(x) ==
    x.k = "fin" /\ (x.e < 0 \/ \E j \in (x.e + 2)..MantBits : x.m[j] = 1)

(***************************************************************************)
(* DivideConvertType (GifTiffLoader/GifTiffLoader.py).                     *)
(*                                                                         *)
(* Two outcomes depend on the build and are left open:                     *)
(*  - div0: dividing a Python float by a numpy integer scalar that is 0    *)
(*    raises ZeroDivisionError when the scalar type subclasses int         *)
(*    (int64 on 64-bit Python 2) and yields inf/nan otherwise;             *)
(*  - ub: casting a double outside the unsigned range is undefined in C.   *)
(***************************************************************************)
TypeBits == {8, 16}          \* of type_dict's 8, 16, 32, 64: those below 2^31

ZeroModes == {"clip", "abs", "stretch"}

MaxModes == {"clip", "stretch"}

Div0Outcomes == {"raise", "inf"}

UbOutcomes == {"wrap", "zero", "sat"}

\* a pixel just before the final astype: an integer, or a double given by
\* its sign, integer part and whether a fraction follows
PixOfInt(x) ==
    [isFloat |-> FALSE, finite |-> TRUE, neg |-> x < 0, ip |-> IntAbs(x),
     frac |-> FALSE]

PixOfDouble(d) ==
    [isFloat |-> TRUE, finite |-> d.k \in {"fin", "zero"},
     neg |-> (d.k \in {"fin", "inf"}) /\ d.neg, ip |-> FIntPart(d),
     frac |-> FHasFrac(d)]

\* arr.astype(type_dict[bits]) on one pixel
AsTypeUnsigned(p, bits, ub) ==
    LET maxU == Pow2(bits) - 1
        t    == IF p.neg THEN -p.ip ELSE p.ip
    IN  IF ~p.isFloat THEN t % Pow2(bits)
        ELSE IF p.finite /\ 0 <= t /\ t <= maxU THEN t
        ELSE CASE ub = "wrap" -> IF p.finite THEN t % Pow2(bits) ELSE 0
               [] ub = "zero" -> 0
               [] OTHER -> IF p.neg \/ ~p.finite THEN 0 ELSE maxU

DivideConvertType(arr, bits, maxVal, zeroMode, maxMode, div0, ub) ==
    LET maxClip == IF maxMode = "stretch" /\ maxVal # None
                   THEN maxVal[1] ELSE Pow2(bits) - 1
        arr1 == IF maxMode = "clip" /\ maxVal # None
                THEN NpClip(arr, ArrMin(arr), maxVal[1]) ELSE arr
        minVal == IF zeroMode = "stretch" THEN ArrMin(arr1) ELSE 0
        maxV == IF maxVal = None THEN ArrMax(arr1) ELSE maxVal[1]
        arr2 == CASE zeroMode = "clip" -> NpClip(arr1, 0, ArrMax(arr1))
                  [] zeroMode = "abs" -> NpAbsolute(arr1)
                  [] OTHER -> arr1
        den == maxV - minVal
        pyInts == maxVal # None /\ zeroMode # "stretch"
    IN  IF den = 0 /\ (pyInts \/ div0 = "raise")
        THEN [status |-> "ZeroDivisionError", arrAfter |-> arr2]
        ELSE LET clipRatio ==
                     IF den # 0 THEN FDiv(maxClip, den)
                     ELSE IF maxClip = 0 THEN FNan ELSE FInf(maxClip < 0)
                 scale == FLessOne(clipRatio)
                 pre == [i \in DOMAIN arr2 |->
                            IF scale
                            THEN PixOfDouble(FMulInt(arr2[i] - minVal, clipRatio))
                            ELSE IF zeroMode = "stretch"
                            THEN PixOfDouble(FOfInt(arr2[i] - minVal))
                            ELSE PixOfInt(arr2[i])]
             IN  [status |-> "ok", arrAfter |-> arr2, pre |-> pre,
                  out |-> [i \in DOMAIN pre |-> AsTypeUnsigned(pre[i], bits, ub)]]

ConvertTo8Bit(arr, div0, ub) ==
    DivideConvertType(arr, 8, None, "clip", "clip", div0, ub)

ConvertTo16Bit(arr, div0, ub) ==
    DivideConvertType(arr, 16, None, "clip", "clip", div0, ub)

(***************************************************************************)
(* Inputs of the conversion specification.                                 *)
(***************************************************************************)
MaxLen == 2

MaxNeg == 2

MaxSmall == 2

\* small values around 0, the ends of the 8-bit range, and larger ranges
PixelValues == (-MaxNeg..MaxSmall) \cup {255, 256, 319, 345, 1000, -1000}

MaxVals == {None, Some(1), Some(200), Some(300)}

Arrays == UNION {[1..n -> PixelValues] : n \in 1..MaxLen}

\* no file system is involved in the pure conversions
NoDisk ==
    /\ files = <<>>
    /\ dirs = {}

DctInit ==
    /\ call = NoCall
    /\ ret = NoRet
    /\ NoDisk

CallDivideConvertType ==
    /\ call = NoCall
    /\ \E arr \in Arrays, bits \in TypeBits, maxVal \in MaxVals,
          zeroMode \in ZeroModes, maxMode \in MaxModes,
          div0 \in Div0Outcomes, ub \in UbOutcomes :
          /\ call' = [fn |-> "DivideConvertType", arr |-> arr, bits |-> bits,
                         maxVal |-> maxVal, zeroMode |-> zeroMode,
                         maxMode |-> maxMode]
          /\ ret' = DivideConvertType(arr, bits, maxVal, zeroMode, maxMode,
                                       div0, ub)
          /\ UNCHANGED <<files, dirs>>

CallConvertTo8Bit ==
    /\ call = NoCall
    /\ \E arr \in Arrays, div0 \in Div0Outcomes, ub \in UbOutcomes :
          /\ call' = [fn |-> "ConvertTo8Bit", arr |-> arr, bits |-> 8,
                         maxVal |-> None, zeroMode |-> "clip",
                         maxMode |-> "clip"]
          /\ ret' = ConvertTo8Bit(arr, div0, ub)
          /\ UNCHANGED <<files, dirs>>

CallConvertTo16Bit ==
    /\ call = NoCall
    /\ \E arr \in Arrays, div0 \in Div0Outcomes, ub \in UbOutcomes :
          /\ call' = [fn |-> "ConvertTo16Bit", arr |-> arr, bits |-> 16,
                         maxVal |-> None, zeroMode |-> "clip",
                         maxMode |-> "clip"]
          /\ ret' = ConvertTo16Bit(arr, div0, ub)
          /\ UNCHANGED <<files, dirs>>

DctNext == CallDivideConvertType \/ CallConvertTo8Bit \/ CallConvertTo16Bit

SpecDct == DctInit /\ [][DctNext]_vars

(***************************************************************************)
(* Claims about the bit-depth conversion, checked under SpecDct.           *)
(***************************************************************************)
DctCalled == call.fn # "none"

DctDefaults ==
    /\ DctCalled
    /\ call.maxVal = None
    /\ call.zeroMode = "clip"
    /\ call.maxMode = "clip"

\* a pixel before the cast is a number in 0..2^bits-1
PixInRange(p, bits) ==
    /\ p.finite
    /\ IF p.neg THEN p.ip = 0 /\ ~p.frac
       ELSE p.ip < Pow2(bits) - 1 \/ (p.ip = Pow2(bits) - 1 /\ ~p.frac)

\* C1: with the default modes and an array holding a positive value, every
\* pixel v comes out as max(v,0) when max(arr) <= 2^bits-1 and as
\* max(v,0)*(2^bits-1)/max(arr), truncated, otherwise.
C1_ScalesExactly ==
    (DctDefaults /\ ArrMax(call.arr) > 0) =>
        /\ ret.status = "ok"
        /\ \A i \in DOMAIN call.arr :
              LET v    == IntMax(call.arr[i], 0)
                  top  == ArrMax(call.arr)
                  maxU == Pow2(call.bits) - 1
              IN  ret.out[i] = IF top <= maxU THEN v ELSE (v * maxU) \div top

\* C2: whatever the modes, every pixel just before the final cast lies in
\* 0..2^bits-1.
C2_PreCastInRange ==
    (DctCalled /\ ret.status = "ok") =>
        \A i \in DOMAIN ret.pre : PixInRange(ret.pre[i], call.bits)


\* ------------------------------------------------------------------
\* 16-bit <-> RGB(A) packing
\* ------------------------------------------------------------------

\* The byte order of the machine numpy runs on decides what .view() sees.
ByteOrders == {"little", "big"}

\* The module binds no global called a, t or dtype; the function bodies
\* below read them all the same.
GlobalA == None
GlobalT == None

Reverse(s) == [k \in 1..Len(s) |-> s[Len(s) + 1 - k]]

\* the w bytes of the unsigned integer v as they lie in memory
BytesOf(v, w, order) ==
    LET le == [k \in 1..w |-> (v \div Pow2(8 * (k - 1))) % 256]
    IN  IF order = "little" THEN le ELSE Reverse(le)

\* the unsigned integer whose memory image is bytes
WordOf(bytes, order) ==
    LET le == IF order = "little" THEN bytes ELSE Reverse(bytes)
    IN  IF Len(le) = 2 THEN le[1] + 256 * le[2] ELSE le[1]

\* ndarray.byteswap() of a uint16 element
Byteswap16(v) == (v % 256) * 256 + (v \div 256)

\* np.asarray(a.byteswap(), np.uint32).view(np.uint8).reshape(a.shape+(4,))
PackRGBA(a, order) == [i \in DOMAIN a |-> BytesOf(Byteswap16(a[i]), 4, order)]

\* seq[::-2] : last element, then every second one going down
SliceStepMinus2(seq) ==
    [k \in 1..((Len(seq) + 1) \div 2) |-> seq[Len(seq) - 2 * (k - 1)]]

Convert16BitToRGBImage(arr16, order) ==
    IF GlobalA = None
    THEN [status |-> "NameError"]
    ELSE [status |-> "ok",
          value |-> [i \in DOMAIN GlobalA[1] |->
                        SubSeq(PackRGBA(GlobalA[1], order)[i], 1, 3)]]

Convert16BitToRGBAImage(arr16, order) ==
    IF GlobalA = None
    THEN [status |-> "NameError"]
    ELSE [status |-> "ok",
          value |-> [i \in DOMAIN GlobalA[1] |->
                        [PackRGBA(GlobalA[1], order)[i] EXCEPT ![4] = 255]]]

ConvertRGBImageTo16Bit(rgb, order) ==
    LET picked == [i \in DOMAIN rgb |-> SliceStepMinus2(rgb[i])]
    IN  IF \E i \in DOMAIN rgb : Len(picked[i]) # 2
        THEN [status |-> "ValueError"]
        ELSE [status |-> "ok",
              value |-> [i \in DOMAIN rgb |-> WordOf(picked[i], order)]]

\* ConvertRGBImageTo16Bit(Convert16BitToRGBImage(arr16)) and the RGBA twin
RoundTrip16(arr16, alpha, order) ==
    LET mid == IF alpha THEN Convert16BitToRGBAImage(arr16, order)
               ELSE Convert16BitToRGBImage(arr16, order)
    IN  IF mid.status # "ok" THEN mid
        ELSE ConvertRGBImageTo16Bit(mid.value, order)

WordValues == {0, 1, 255, 256, 258, 4660, 65535}
ByteValues == {0, 1, 2, 255}
MaxPixels == 1
Images16 == UNION {[1..n -> WordValues] : n \in 1..MaxPixels}
ImagesRGB ==
    UNION {[1..n -> [1..c -> ByteValues]] : n \in 1..MaxPixels, c \in {3, 4}}

RgbInit ==
    /\ call = NoCall
    /\ ret = NoRet
    /\ NoDisk

CallConvert16BitToRGBImage ==
    /\ call = NoCall
    /\ \E arr16 \in Images16, order \in ByteOrders :
          /\ call' = [fn |-> "Convert16BitToRGBImage", arr16 |-> arr16]
          /\ ret' = Convert16BitToRGBImage(arr16, order)
    /\ UNCHANGED <<files, dirs>>

CallConvert16BitToRGBAImage ==
    /\ call = NoCall
    /\ \E arr16 \in Images16, order \in ByteOrders :
          /\ call' = [fn |-> "Convert16BitToRGBAImage", arr16 |-> arr16]
          /\ ret' = Convert16BitToRGBAImage(arr16, order)
    /\ UNCHANGED <<files, dirs>>

CallConvertRGBImageTo16Bit ==
    /\ call = NoCall
    /\ \E rgb \in ImagesRGB, order \in ByteOrders :
          /\ call' = [fn |-> "ConvertRGBImageTo16Bit", rgb |-> rgb,
                      order |-> order]
          /\ ret' = ConvertRGBImageTo16Bit(rgb, order)
    /\ UNCHANGED <<files, dirs>>

CallRoundTrip16 ==
    /\ call = NoCall
    /\ \E arr16 \in Images16, alpha \in BOOLEAN, order \in ByteOrders :
          /\ call' = [fn |-> "RoundTrip16", arr16 |-> arr16, alpha |-> alpha]
          /\ ret' = RoundTrip16(arr16, alpha, order)
    /\ UNCHANGED <<files, dirs>>

RgbNext ==
    \/ CallConvert16BitToRGBImage
    \/ CallConvert16BitToRGBAImage
    \/ CallConvertRGBImageTo16Bit
    \/ CallRoundTrip16

SpecRgb == RgbInit /\ [][RgbNext]_vars

\* C9: the 16-bit to RGB / RGBA conversions give red = v div 256,
\* green = v mod 256, blue = 0 (alpha = 255); ConvertRGBImageTo16Bit gives
\* red*256 + green; converting to RGB(A) and back returns the input.
C9_RGBPacking ==
    /\ call.fn = "Convert16BitToRGBImage" =>
          /\ ret.status = "ok"
          /\ ret.value = [i \in DOMAIN call.arr16 |->
                 <<call.arr16[i] \div 256, call.arr16[i] % 256, 0>>]
    /\ call.fn = "Convert16BitToRGBAImage" =>
          /\ ret.status = "ok"
          /\ ret.value = [i \in DOMAIN call.arr16 |->
                 <<call.arr16[i] \div 256, call.arr16[i] % 256, 0, 255>>]
    /\ call.fn = "ConvertRGBImageTo16Bit" =>
          /\ ret.status = "ok"
          /\ ret.value = [i \in DOMAIN call.rgb |->
                 call.rgb[i][1] * 256 + call.rgb[i][2]]
    /\ call.fn = "RoundTrip16" =>
          /\ ret.status = "ok"
          /\ ret.value = call.arr16

\* ------------------------------------------------------------------
\* GetDatatype
\* ------------------------------------------------------------------

Dtypes == {"uint8", "uint16", "float32", "int16", ">u2", ">i2", "object",
           "int8", "int32", "uint32", "float64", "bool"}
Modes == {"L", "I;16", "I;16B", "I", "F", "RGB", "RGBA", "P", "1"}

\* np.dtype('>u2') is np.uint16 itself on a big-endian machine and a
\* different dtype on a little-endian one.
NativeDtype(dtype, order) ==
    IF order = "big" /\ dtype = ">u2" THEN "uint16"
    ELSE IF order = "big" /\ dtype = ">i2" THEN "int16"
    ELSE dtype

GetDatatype(mode, im_arr_dtype, order) ==
    LET dtype == NativeDtype(im_arr_dtype, order)
    IN  IF dtype = "object"
        THEN IF mode = "L" THEN [status |-> "ok", value |-> Some("uint8")]
             ELSE IF mode \in {"I;16", "I;16B"}
                  THEN [status |-> "ok", value |-> Some("uint16")]
             ELSE IF mode \in {"I", "F"}
                  THEN [status |-> "UnboundLocalError"]   \* return datatype
             ELSE [status |-> "ok", value |-> Some("uint16")]
        ELSE IF dtype \in {"uint8", "uint16", "float32"}
             THEN [status |-> "ok", value |-> Some(dtype)]
        ELSE IF dtype \in {"int16", NativeDtype(">u2", order),
                           NativeDtype(">i2", order)}
             THEN [status |-> "ok", value |-> Some("uint16")]
        ELSE IF GlobalT = None
             THEN [status |-> "NameError"]                \* print t.dtype
             ELSE [status |-> "ok", value |-> None]

DatatypeInit ==
    /\ call = NoCall
    /\ ret = NoRet
    /\ NoDisk

CallGetDatatype ==
    /\ call = NoCall
    /\ \E mode \in Modes, dtype \in Dtypes, order \in ByteOrders :
          /\ call' = [fn |-> "GetDatatype", mode |-> mode, dtype |-> dtype,
                      order |-> order]
          /\ ret' = GetDatatype(mode, dtype, order)
    /\ UNCHANGED <<files, dirs>>

DatatypeNext == CallGetDatatype

SpecDatatype == DatatypeInit /\ [][DatatypeNext]_vars

\* C8: GetDatatype is total: uint8, uint16 and float32 come back unchanged,
\* int16 and the big-endian 16-bit dtypes give uint16, an object array falls
\* back on the image mode (L -> uint8, I;16 and I;16B -> uint16, unknown ->
\* uint16), and every remaining case (an unsupported dtype, modes I and F in
\* the fallback) returns no datatype instead of raising.
C8_GetDatatypeTotal ==
    call.fn = "GetDatatype" =>
        /\ ret.status = "ok"
        /\ ret.value =
              IF call.dtype = "object"
              THEN IF call.mode = "L" THEN Some("uint8")
                   ELSE IF call.mode \in {"I", "F"} THEN None
                   ELSE Some("uint16")
              ELSE IF call.dtype \in {"uint8", "uint16", "float32"}
                   THEN Some(call.dtype)
              ELSE IF call.dtype \in {"int16", ">u2", ">i2"}
                   THEN Some("uint16")
              ELSE None


\* ------------------------------------------------------------------
\* File names: strings are sequences of one-character strings
\* ------------------------------------------------------------------

Digits == <<"0", "1", "2", "3", "4", "5", "6", "7", "8", "9">>

IsDigit(c) == \E d \in 1..10 : Digits[d] = c

DigitVal(c) == (CHOOSE d \in 1..10 : Digits[d] = c) - 1

\* str(n) and '{}'.format(n) for n >= 0
RECURSIVE StrOfNat(_)
StrOfNat(n) ==
    IF n < 10 THEN <<Digits[n + 1]>>
    ELSE StrOfNat(n \div 10) \o <<Digits[(n % 10) + 1]>>

\* '{:03d}'.format(n): at least three characters, zero filled
Pad3(n) ==
    LET str == StrOfNat(n)
    IN  IF Len(str) >= 3 THEN str
        ELSE [k \in 1..(3 - Len(str)) |-> "0"] \o str

RECURSIVE DigitsVal(_)
DigitsVal(str) ==
    IF Len(str) = 0 THEN 0
    ELSE 10 * DigitsVal(SubSeq(str, 1, Len(str) - 1)) + DigitVal(str[Len(str)])

\* int(str): None stands for the ValueError
PyInt(str) ==
    IF Len(str) = 0 \/ \E k \in 1..Len(str) : ~IsDigit(str[k])
    THEN None
    ELSE Some(DigitsVal(str))

\* index of the last c in str, 0 when there is none
LastIndexOf(str, c) ==
    LET at == {k \in 1..Len(str) : str[k] = c}
    IN  IF at = {} THEN 0 ELSE CHOOSE k \in at : \A m \in at : m <= k

\* str.split(c)
RECURSIVE Split(_, _)
Split(str, c) ==
    LET k == LastIndexOf(str, c)
    IN  IF k = 0 THEN <<str>>
        ELSE Split(SubSeq(str, 1, k - 1), c) \o <<SubSeq(str, k + 1, Len(str))>>

\* str[:n]
Prefix(str, n) == SubSeq(str, 1, IF Len(str) < n THEN Len(str) ELSE n)

\* os.path.split(path): head without its trailing slashes, and tail
PathSplit(path) ==
    LET k == LastIndexOf(path, "/")
        h == SubSeq(path, 1, k)
        allSlash == \A m \in 1..k : h[m] = "/"
        cut == IF allSlash THEN k
               ELSE CHOOSE m \in 1..k :
                        /\ h[m] # "/"
                        /\ \A n \in (m + 1)..k : h[n] = "/"
    IN  [head |-> SubSeq(path, 1, cut), tail |-> SubSeq(path, k + 1, Len(path))]

\* os.path.splitext(path)[0]
SplitExtRoot(path) ==
    LET sep == LastIndexOf(path, "/")
        dot == LastIndexOf(path, ".")
    IN  IF dot > sep /\ \E k \in (sep + 1)..(dot - 1) : path[k] # "."
        THEN SubSeq(path, 1, dot - 1)
        ELSE path

\* new_name.format(i, j) in SaveFileSequence
NewName(basename, im_format, i, j) ==
    SplitExtRoot(basename) \o <<"_">> \o StrOfNat(i) \o <<"_">> \o Pad3(j)
        \o <<".">> \o im_format

\* The t and z that GetFilesAndIndices reads out of one file name:
\* "skip" for fewer than three fields, "ValueError" when int() fails.
ParseTZ(f) ==
    LET s == Split(PathSplit(f).tail, "_")
        t == PyInt(s[Len(s) - 1])
        z == PyInt(Prefix(s[Len(s)], 3))
    IN  IF Len(s) < 3 THEN [status |-> "skip"]
        ELSE IF t = None \/ z = None THEN [status |-> "ValueError"]
        ELSE [status |-> "ok", f |-> f, t |-> t[1], z |-> z[1]]

Gif == <<"g", "i", "f">>
Tif == <<"t", "i", "f">>

BaseNames == {<<"s">>,
              <<"d", "/", "s", ".", "g", "i", "f">>,
              <<"d", "/", "a", "_", "b">>,
              <<"n", "/", "x", "_", "1", "_", "2", ".", "t", "i", "f">>}

MaxT == 11
MaxZ == 1001
PairZ == {0, 1, 10, 99, 100, 999, 1000, 1001}

NameInit ==
    /\ call = NoCall
    /\ ret = NoRet
    /\ NoDisk

\* build the name of frame (t, z) and read the indices back
CallFormatAndParse ==
    /\ call = NoCall
    /\ \E base \in BaseNames, fmt \in {Gif, Tif}, t \in 0..MaxT, z \in 0..MaxZ :
          /\ call' = [fn |-> "FormatAndParse", base |-> base, t |-> t, z |-> z]
          /\ ret' = ParseTZ(NewName(base, fmt, t, z))
    /\ UNCHANGED <<files, dirs>>

\* the same for two frames of one sequence
CallFormatAndParseTwo ==
    /\ call = NoCall
    /\ \E base \in BaseNames, t1 \in 0..1, t2 \in 0..1, z1 \in PairZ, z2 \in PairZ :
          /\ call' = [fn |-> "FormatAndParseTwo", base |-> base,
                      p1 |-> <<t1, z1>>, p2 |-> <<t2, z2>>]
          /\ ret' = [status |-> "pair",
                     r1 |-> ParseTZ(NewName(base, Gif, t1, z1)),
                     r2 |-> ParseTZ(NewName(base, Gif, t2, z2))]
    /\ UNCHANGED <<files, dirs>>

NameNext ==
    \/ CallFormatAndParse
    \/ CallFormatAndParseTwo

SpecName == NameInit /\ [][NameNext]_vars

\* C3: the name SaveFileSequence gives frame (t, z) is read back by the 4D
\* loader's rule as the same t and z, whatever the base name, and two
\* different (t, z) never read back as the same pair.
C3_NameRoundTrip ==
    /\ call.fn = "FormatAndParse" =>
          /\ ret.status = "ok"
          /\ ret.t = call.t
          /\ ret.z = call.z
    /\ call.fn = "FormatAndParseTwo" =>
          /\ ret.r1.status = "ok"
          /\ ret.r2.status = "ok"
          /\ (call.p1 # call.p2 =>
                 <<ret.r1.t, ret.r1.z>> # <<ret.r2.t, ret.r2.z>>)

\* What does hold: frames with z below 1000 read back as themselves.
NameRoundTripBelow1000 ==
    (call.fn = "FormatAndParse" /\ call.z < 1000) =>
        /\ ret.status = "ok"
        /\ ret.t = call.t
        /\ ret.z = call.z


\* ------------------------------------------------------------------
\* Saving: SaveSingle and SaveFileSequence
\* ------------------------------------------------------------------

\* files maps a path to [format, mode, frames]; format is im.format as PIL
\* reports it and a frame is the sequence of its pixel values.  dirs holds the paths of the directories that exist; the
\* working directory '' always exists for mkdir and open, but
\* os.path.exists('') is false.

GifNames == {<<"g", "i", "f">>, <<"G", "I", "F">>, <<"G", "i", "f">>}
TifNames == {<<"t", "i", "f">>, <<"T", "I", "F">>, <<"T", "i", "f">>,
             <<"t", "i", "f", "f">>, <<"T", "I", "F", "F">>,
             <<"T", "i", "f", "f">>}

PathExists(path, disk) == path \in disk.dirs \/ path \in DOMAIN disk.files

\* os.mkdir(path): None stands for the OSError
Mkdir(path, disk) ==
    LET parent == PathSplit(path).head
    IN  IF path = <<>> \/ PathExists(path, disk)
           \/ (parent # <<>> /\ parent \notin disk.dirs)
        THEN None
        ELSE Some([disk EXCEPT !.dirs = @ \cup {path}])

AssertValidFormat(im_format, tiffBits) ==
    im_format \in GifNames \cup TifNames /\ tiffBits \in {8, 16, 32}

\* SaveSingle(arr, filename, im_format, tiffBits) on the disk given;
\* arr is one frame [dtype, pix].  Returns [status, disk].
SaveSingle(arr, filename, im_format, tiffBits, disk, div0, ub) ==
    IF ~AssertValidFormat(im_format, tiffBits)
    THEN [status |-> "AssertionError", disk |-> disk]
    ELSE
    LET formatName == IF im_format \in TifNames THEN <<"T", "I", "F", "F">>
                      ELSE <<"G", "I", "F">>
        bits == IF im_format \in GifNames THEN 8 ELSE tiffBits
        datatype == CASE bits = 8 -> "uint8"
                      [] bits = 16 -> "uint16"
                      [] OTHER -> "float32"
        dir == PathSplit(filename).head
        made == IF PathExists(dir, disk) THEN Some(disk) ELSE Mkdir(dir, disk)
        conv == IF datatype = arr.dtype \/ bits = 32
                THEN [status |-> "ok", out |-> arr.pix]
                ELSE DivideConvertType(arr.pix, bits, None, "clip", "clip",
                                       div0, ub)
        mode == CASE bits = 8 -> "L"
                  [] bits = 16 -> "I;16"
                  [] OTHER -> "F"
    IN  IF made = None THEN [status |-> "OSError", disk |-> disk]
        ELSE IF conv.status # "ok"
             THEN [status |-> conv.status, disk |-> made[1]]
        ELSE [status |-> "ok",
              disk |-> [made[1] EXCEPT !.files =
                           (filename :> [format |-> formatName, mode |-> mode,
                                         frames |-> <<conv.out>>]) @@ @]]

\* An array is [ndim, dtype, lead, frames]: lead is the shape without the
\* two image axes, frames the images in row-major order.
RECURSIVE Prod(_)
Prod(shape) == IF Len(shape) = 0 THEN 1 ELSE shape[1] * Prod(Tail(shape))

\* ((1,)*(4-arr.ndim) + arr.shape)[:2]
Shape4(arr) == [k \in 1..(4 - arr.ndim) |-> 1] \o arr.lead

\* arr[i, j] after the reshape
FrameAt(arr, i, j) ==
    [dtype |-> arr.dtype, pix |-> arr.frames[i * Shape4(arr)[2] + j + 1]]

\* sparseSave is [kind, flat, nested]: kind "none" for None, "flat" for a
\* list of booleans (or the empty list), held in flat, and "nested" for a
\* list of lists, held in nested.
NoSparse == [kind |-> "none", flat |-> <<>>, nested |-> <<>>]

FlatSparse(v) == [kind |-> "flat", flat |-> v, nested |-> <<>>]

NestedSparse(v) == [kind |-> "nested", flat |-> <<>>, nested |-> v]

\* lines 314-322: None stands for the ValueError
WrapSparse(sparseSave, shape) ==
    IF sparseSave.kind = "flat" /\ Len(sparseSave.flat) > 0
    THEN IF shape[1] = 1
         THEN Some(NestedSparse(<<sparseSave.flat>>))
         ELSE IF shape[2] = 1
         THEN Some(NestedSparse([k \in DOMAIN sparseSave.flat |->
                                    <<sparseSave.flat[k]>>]))
         ELSE None
    ELSE Some(sparseSave)

\* (sparseSave is None) or sparseSave[i][j]; None stands for the IndexError
SparseAt(sparseSave, i, j) ==
    IF sparseSave.kind = "none" THEN Some(TRUE)
    ELSE IF i + 1 > Len(sparseSave.nested) THEN None
    ELSE IF j + 1 > Len(sparseSave.nested[i + 1]) THEN None
    ELSE Some(sparseSave.nested[i + 1][j + 1])

\* the double loop of lines 324-329 from its k-th iteration on
RECURSIVE SaveLoop(_, _, _)
SaveLoop(job, k, st) ==
    LET shape == Shape4(job.arr)
        i == (k - 1) \div shape[2]
        j == (k - 1) % shape[2]
        sel == SparseAt(job.sparseSave, i, j)
    IN  IF k > shape[1] * shape[2] \/ st.status # "ok" THEN st
        ELSE IF sel = None THEN [st EXCEPT !.status = "IndexError"]
        ELSE IF sel[1]
             THEN SaveLoop(job, k + 1,
                           SaveSingle(FrameAt(job.arr, i, j),
                                      NewName(job.basename, job.im_format, i, j),
                                      job.im_format, job.tiffBits, st.disk,
                                      job.div0, job.ub))
        ELSE SaveLoop(job, k + 1, st)

SaveFileSequence(arr, basename, im_format, tiffBits, sparseSave, disk, div0, ub) ==
    IF ~AssertValidFormat(im_format, tiffBits) \/ arr.ndim > 4
    THEN [status |-> "AssertionError", disk |-> disk]
    ELSE LET wrapped == WrapSparse(sparseSave, Shape4(arr))
         IN  IF wrapped = None THEN [status |-> "ValueError", disk |-> disk]
             ELSE SaveLoop([arr |-> arr, basename |-> basename,
                            im_format |-> im_format, tiffBits |-> tiffBits,
                            sparseSave |-> wrapped[1], div0 |-> div0,
                            ub |-> ub],
                           1, [status |-> "ok", disk |-> disk])


\* ------------------------------------------------------------------
\* Directory listings and LoadSingle
\* ------------------------------------------------------------------

\* characters in ASCII order, for sorting names
Alphabet == <<".", "/", "0", "1", "2", "3", "4", "5", "6", "7", "8", "9",
              ":", "F", "G", "I", "M", "P", "T", "_", "a", "b", "d", "f",
              "g", "i", "n", "s", "t", "x">>

CharIndex(c) == CHOOSE k \in 1..Len(Alphabet) : Alphabet[k] = c

\* length of the run of digits str starts with
DigitRun(str) ==
    IF \E k \in 1..Len(str) : ~IsDigit(str[k])
    THEN (CHOOSE k \in 1..Len(str) :
              ~IsDigit(str[k]) /\ \A m \in 1..(k - 1) : IsDigit(str[m])) - 1
    ELSE Len(str)

\* the order of FilenameSort: runs of digits compare as numbers
RECURSIVE NameLess(_, _)
NameLess(a, b) ==
    IF Len(a) = 0 THEN Len(b) > 0
    ELSE IF Len(b) = 0 THEN FALSE
    ELSE IF IsDigit(a[1]) /\ IsDigit(b[1])
         THEN LET ra == DigitRun(a)
                  rb == DigitRun(b)
                  va == DigitsVal(SubSeq(a, 1, ra))
                  vb == DigitsVal(SubSeq(b, 1, rb))
              IN  IF va # vb THEN va < vb
                  ELSE NameLess(SubSeq(a, ra + 1, Len(a)),
                                SubSeq(b, rb + 1, Len(b)))
    ELSE IF a[1] = b[1] THEN NameLess(Tail(a), Tail(b))
    ELSE CharIndex(a[1]) < CharIndex(b[1])

RECURSIVE SortedNames(_)
SortedNames(S) ==
    IF S = {} THEN <<>>
    ELSE LET least == CHOOSE x \in S : \A y \in S \ {x} : ~NameLess(y, x)
         IN  <<least>> \o SortedNames(S \ {least})

\* glob matching of one path component: * and [!...] are special
RECURSIVE GlobMatch(_, _)
GlobMatch(pat, str) ==
    IF Len(pat) = 0 THEN Len(str) = 0
    ELSE IF pat[1] = "*"
         THEN \E k \in 0..Len(str) :
                  GlobMatch(Tail(pat), SubSeq(str, k + 1, Len(str)))
    ELSE IF pat[1] = "[" /\ Len(pat) >= 2 /\ pat[2] = "!"
            /\ \E k \in 3..Len(pat) : pat[k] = "]"
         THEN LET close == CHOOSE k \in 3..Len(pat) :
                               pat[k] = "]" /\ \A m \in 3..(k - 1) : pat[m] # "]"
              IN  /\ Len(str) > 0
                  /\ \A m \in 3..(close - 1) : pat[m] # str[1]
                  /\ GlobMatch(SubSeq(pat, close + 1, Len(pat)), Tail(str))
    ELSE /\ Len(str) > 0
         /\ str[1] = pat[1]
         /\ GlobMatch(Tail(pat), Tail(str))

DefaultWildcard == <<"*", "[", "!", ".", "t", "x", "t", "]">>

\* getSortedListOfFiles(dirname, globArg)
getSortedListOfFiles(dirname, globArg, disk) ==
    SortedNames({f \in DOMAIN disk.files :
                    LET parts == PathSplit(f)
                    IN  parts.head = dirname /\ GlobMatch(globArg, parts.tail)})

\* GetDirectoryFiles(dirname, wildcard); dlgDir is the directory the user
\* picks in wx.DirSelector when dirname is None
GetDirectoryFiles(dirname, wildcard, dlgDir, disk) ==
    getSortedListOfFiles(IF dirname = None THEN dlgDir ELSE dirname[1],
                         wildcard, disk)

\* the dtype of np.array(im) for an image of the given mode
DtypeOfMode(mode) ==
    CASE mode \in {"L", "P"} -> "uint8"
      [] mode = "I;16" -> "uint16"
      [] mode = "I;16B" -> ">u2"
      [] mode = "F" -> "float32"
      [] mode = "I" -> "int32"
      [] OTHER -> "bool"

\* LoadSingle(filename): the first frame of the file, as [dtype, pix]
LoadSingle(filename, disk, order) ==
    IF filename \notin DOMAIN disk.files THEN [status |-> "IOError"]
    ELSE LET im == disk.files[filename]
             datatype == GetDatatype(im.mode, DtypeOfMode(im.mode), order)
         IN  IF datatype.status # "ok" THEN [status |-> datatype.status]
             ELSE [status |-> "ok",
                   value |-> [dtype |-> IF datatype.value = None THEN "float64"
                                        ELSE datatype.value[1],
                              pix |-> im.frames[1]]]

\* ------------------------------------------------------------------
\* GetFilesAndIndices and LoadSequence4D
\* ------------------------------------------------------------------

\* GetFilesAndIndices(dirname, wildcard, dims): the listing it works on is
\* GetDirectoryFiles(dirname=None, wildcard='*[!.txt]'), whatever it was
\* given.  The value is tagged "none" (None, held as the empty sequence),
\* "pair" ((files, len(files)), the length held as a 1-tuple) or "zip"
\* (zip(ftz): one 1-tuple for each [f, t, z]).
GetFilesAndIndices(dirname, wildcard, dims, dlgDir, disk) ==
    LET listing == GetDirectoryFiles(None, DefaultWildcard, dlgDir, disk)
        parsed == [k \in DOMAIN listing |-> ParseTZ(listing[k])]
        ftz == SelectSeq(parsed, LAMBDA r : r.status = "ok")
    IN  IF dims > 2 THEN [status |-> "AssertionError"]
        ELSE IF Len(listing) = 0
             THEN [status |-> "ok", kind |-> "none", value |-> <<>>]
        ELSE IF dims = 1
             THEN [status |-> "ok", kind |-> "pair",
                   value |-> <<listing, <<Len(listing)>>>>]
        ELSE IF \E k \in DOMAIN parsed : parsed[k].status = "ValueError"
             THEN [status |-> "ValueError"]
        ELSE [status |-> "ok", kind |-> "zip",
              value |-> [k \in DOMAIN ftz |-> <<ftz[k]>>]]

\* LoadSequence4D(dirname, wildcard)
LoadSequence4D(dirname, wildcard, dlgDir, disk, order) ==
    LET got == GetFilesAndIndices(Some(dirname), wildcard, 2, dlgDir, disk)
    IN  IF got.status # "ok" THEN [status |-> got.status]
        \* files, t_inds, z_inds = None
        ELSE IF got.kind = "none" THEN [status |-> "TypeError"]
        \* unpacking a list that does not hold exactly three items
        ELSE IF Len(got.value) # 3 THEN [status |-> "ValueError"]
        ELSE LET filesT == got.value[1]     \* the 1-tuple ([f, t, z],)
                 t_inds == got.value[2]
                 test == LoadSingle(filesT[1].f, disk, order)
             IN  IF test.status # "ok" THEN [status |-> test.status]
                 \* max(t_inds) is the list [f, t, z]; list + 1
                 ELSE [status |-> "TypeError"]


\* ------------------------------------------------------------------
\* Saving and loading sequences on a disk
\* ------------------------------------------------------------------

MaxFrames == 3
MaxStacks == 2
MaxSlices == 2
MaxSparse == 3

SaveBases == {<<"s">>,
              <<"d", "/", "s", ".", "g", "i", "f">>,
              <<"n", "/", "a", "_", "b">>}

DirNames == {<<>>, <<"d">>, <<"n">>}

Leads(ndim) ==
    CASE ndim = 2 -> {<<>>}
      [] ndim = 3 -> {<<n>> : n \in 1..MaxFrames}
      [] ndim = 4 -> {<<t, z>> : t \in 1..MaxStacks, z \in 1..MaxSlices}
      [] OTHER -> {<<1, 1, 1>>}

\* frame k of the array holds the one pixel first + k - 1
Arrays4 ==
    UNION {{[ndim |-> ndim, dtype |-> dtype, lead |-> lead,
             frames |-> [k \in 1..Prod(lead) |-> <<first + k - 1>>]] :
               dtype \in {"uint8", "uint16"}, lead \in Leads(ndim),
               first \in {0, 1}} : ndim \in 2..5}

SparseSaves ==
    {NoSparse}
    \cup {FlatSparse(v) :
            v \in UNION {[1..n -> BOOLEAN] : n \in 0..MaxSparse}}
    \cup {NestedSparse(v) :
            v \in UNION {[1..a -> [1..b -> BOOLEAN]] :
                            a \in 1..MaxStacks, b \in 1..MaxSlices}}

Disk == [files |-> files, dirs |-> dirs]

SaveInit ==
    /\ call = NoCall
    /\ ret = NoRet
    /\ files = <<>>
    /\ dirs \in {{}, {<<"d">>}}

CallSaveFileSequence ==
    /\ call = NoCall
    /\ \E arr \in Arrays4, basename \in SaveBases, im_format \in {Gif, Tif, <<"p", "n", "g">>},
          tiffBits \in {8, 16, 32}, sparseSave \in SparseSaves,
          div0 \in Div0Outcomes, ub \in UbOutcomes :
          LET r == SaveFileSequence(arr, basename, im_format, tiffBits,
                                    sparseSave, Disk, div0, ub)
          IN  /\ call' = [fn |-> "SaveFileSequence", arr |-> arr,
                          basename |-> basename, im_format |-> im_format,
                          tiffBits |-> tiffBits, sparseSave |-> sparseSave,
                          before |-> Disk]
              /\ ret' = [status |-> r.status]
              /\ files' = r.disk.files
              /\ dirs' = r.disk.dirs

SaveNext == CallSaveFileSequence

SpecSave == SaveInit /\ [][SaveNext]_vars

\* A directory d as a sequence save leaves it: frames (t, z) of base d/s,
\* each holding the one pixel 1 + 3t + z, next to files of other names.
FrameFile(t, z) ==
    [format |-> <<"G", "I", "F">>, mode |-> "L",
     frames |-> <<<<1 + 3 * t + z>>>>]

RECURSIVE DiskFiles(_, _)
DiskFiles(P, others) ==
    IF P # {}
    THEN LET q == CHOOSE q \in P : TRUE
         IN  (NewName(<<"d", "/", "s">>, Gif, q[1], q[2])
                  :> FrameFile(q[1], q[2])) @@ DiskFiles(P \ {q}, others)
    ELSE IF others # {}
    THEN LET f == CHOOSE f \in others : TRUE
         IN  (f :> FrameFile(0, 0)) @@ DiskFiles(P, others \ {f})
    ELSE <<>>

Load4DInit ==
    /\ call = NoCall
    /\ ret = NoRet
    /\ dirs = {<<"d">>}
    /\ \E P \in SUBSET ((0..(MaxStacks - 1)) \X (0..MaxSlices)),
          others \in SUBSET {<<"d", "/", "a", "_", "b", ".", "g", "i", "f">>} :
          files = DiskFiles(P, others)

CallGetFilesAndIndices ==
    /\ call = NoCall
    /\ \E dirname \in DirNames, wildcard \in {DefaultWildcard, <<"*">>},
          dims \in 1..3, dlgDir \in DirNames :
          /\ call' = [fn |-> "GetFilesAndIndices", dirname |-> dirname,
                      wildcard |-> wildcard, dims |-> dims]
          /\ ret' = GetFilesAndIndices(Some(dirname), wildcard, dims, dlgDir,
                                       Disk)
    /\ UNCHANGED <<files, dirs>>

CallLoadSequence4D ==
    /\ call = NoCall
    /\ \E dirname \in DirNames, wildcard \in {DefaultWildcard, <<"*">>},
          dlgDir \in DirNames, order \in ByteOrders :
          /\ call' = [fn |-> "LoadSequence4D", dirname |-> dirname,
                      wildcard |-> wildcard]
          /\ ret' = LoadSequence4D(dirname, wildcard, dlgDir, Disk, order)
    /\ UNCHANGED <<files, dirs>>

Load4DNext ==
    \/ CallGetFilesAndIndices
    \/ CallLoadSequence4D

SpecLoad4D == Load4DInit /\ [][Load4DNext]_vars


\* ------------------------------------------------------------------
\* Claims about saving and loading sequences
\* ------------------------------------------------------------------

SaveCalled ==
    /\ call.fn = "SaveFileSequence"
    /\ AssertValidFormat(call.im_format, call.tiffBits)

AllPositions(arr) ==
    (0..(Shape4(arr)[1] - 1)) \X (0..(Shape4(arr)[2] - 1))

FrameNames(S) ==
    {NewName(call.basename, call.im_format, q[1], q[2]) : q \in S}

Written == DOMAIN files \ DOMAIN call.before.files

\* the positions a sparseSave of the array's own shape marks true
TruePositions(sparseSave, arr) ==
    IF sparseSave.kind = "flat"
    THEN IF Shape4(arr)[1] = 1
         THEN {q \in AllPositions(arr) : sparseSave.flat[q[2] + 1]}
         ELSE {q \in AllPositions(arr) : sparseSave.flat[q[1] + 1]}
    ELSE {q \in AllPositions(arr) : sparseSave.nested[q[1] + 1][q[2] + 1]}

FlatOn4D(sparseSave, arr) ==
    /\ sparseSave.kind = "flat"
    /\ Len(sparseSave.flat) > 0
    /\ Shape4(arr)[1] > 1
    /\ Shape4(arr)[2] > 1

SparseFits(sparseSave, arr) ==
    IF sparseSave.kind = "flat"
    THEN \/ FlatOn4D(sparseSave, arr)
         \/ Shape4(arr)[1] = 1 /\ Len(sparseSave.flat) = Shape4(arr)[2]
         \/ Shape4(arr)[2] = 1 /\ Len(sparseSave.flat) = Shape4(arr)[1]
    ELSE /\ sparseSave.kind = "nested"
         /\ Len(sparseSave.nested) = Shape4(arr)[1]
         /\ \A k \in DOMAIN sparseSave.nested :
                Len(sparseSave.nested[k]) = Shape4(arr)[2]

\* C5: without sparseSave, SaveFileSequence writes exactly one file for each
\* frame, named by the frame's (t, z) and holding that frame; an array of
\* more than four dimensions is rejected before any file is written.
C5_OneFilePerFrame ==
    (SaveCalled /\ call.sparseSave = NoSparse) =>
        IF call.arr.ndim > 4
        THEN ret.status # "ok" /\ Written = {}
        ELSE /\ ret.status = "ok"
             /\ Written = FrameNames(AllPositions(call.arr))
             /\ \A q \in AllPositions(call.arr) :
                    files[NewName(call.basename, call.im_format, q[1], q[2])].frames
                        = <<FrameAt(call.arr, q[1], q[2]).pix>>

\* C6: with sparseSave, the files written are exactly the positions marked
\* true; a flat list serves one stack or one frame per stack, a nested list
\* a full 4D array, and a flat list with a full 4D array raises ValueError
\* before any file is written.
C6_SparseSave ==
    (/\ SaveCalled
     /\ call.arr.ndim <= 4
     /\ call.sparseSave # NoSparse
     /\ SparseFits(call.sparseSave, call.arr)) =>
        IF FlatOn4D(call.sparseSave, call.arr)
        THEN ret.status = "ValueError" /\ Written = {}
        ELSE /\ ret.status = "ok"
             /\ Written = FrameNames(TruePositions(call.sparseSave, call.arr))

\* What does hold: a save in which no frame's SaveSingle raises writes the
\* files the two statements above name.
SaveWritesMarkedFrames ==
    (/\ SaveCalled
     /\ call.arr.ndim <= 4
     /\ ret.status = "ok"
     /\ SparseFits(call.sparseSave, call.arr) \/ call.sparseSave = NoSparse) =>
        Written = FrameNames(IF call.sparseSave = NoSparse
                             THEN AllPositions(call.arr)
                             ELSE TruePositions(call.sparseSave, call.arr))

\* the files of dirname that match wildcard, and those of them the 4D
\* naming rule gives an index to
Listing(dirname, wildcard) ==
    {f \in DOMAIN files : /\ PathSplit(f).head = dirname
                          /\ GlobMatch(wildcard, PathSplit(f).tail)}

Indexed(dirname, wildcard) ==
    {f \in Listing(dirname, wildcard) : ParseTZ(f).status = "ok"}

SetMax(S) == CHOOSE x \in S : \A y \in S : y <= x

\* C4: LoadSequence4D(dirname, wildcard) returns an array of shape
\* (max t + 1, max z + 1, rows, cols) holding at [t, z] the frame of the
\* file named (t, z), zero where no file names the slot, ignoring files with
\* fewer than three fields; GetFilesAndIndices(dirname, wildcard, dims=2)
\* gives it three parallel sequences taken from that directory and wildcard.
C4_LoadSequence4D ==
    /\ (/\ call.fn = "LoadSequence4D"
        /\ Indexed(call.dirname, call.wildcard) # {}) =>
          LET named == Indexed(call.dirname, call.wildcard)
              tdim == SetMax({ParseTZ(f).t : f \in named}) + 1
              zdim == SetMax({ParseTZ(f).z : f \in named}) + 1
          IN  /\ ret.status = "ok"
              /\ ret.shape = <<tdim, zdim>>
              /\ \A t \in 0..(tdim - 1), z \in 0..(zdim - 1) :
                     \/ \E f \in named : /\ ParseTZ(f).t = t
                                         /\ ParseTZ(f).z = z
                                         /\ ret.arr[t + 1][z + 1] = files[f].frames[1]
                     \/ /\ \A f \in named : <<ParseTZ(f).t, ParseTZ(f).z>> # <<t, z>>
                        /\ \A k \in DOMAIN ret.arr[t + 1][z + 1] :
                               ret.arr[t + 1][z + 1][k] = 0
    /\ (/\ call.fn = "GetFilesAndIndices"
        /\ call.dims = 2
        /\ Indexed(call.dirname, call.wildcard) # {}) =>
          /\ ret.status = "ok"
          /\ Len(ret.value) = 3
          /\ \A k \in 1..3 :
                 Len(ret.value[k]) = Cardinality(Indexed(call.dirname, call.wildcard))


\* ------------------------------------------------------------------
\* Monolithic file or sequence
\* ------------------------------------------------------------------

\* im.seek(k): TRUE when frame k exists, FALSE for the EOFError
Seek(im, k) == k < Len(im.frames)

\* the loop counting one frame too few
SeekLoopShort(im, numFrames) ==
    IF Seek(im, numFrames + 2) THEN numFrames + 2 ELSE numFrames + 1

\* the counting loop of GetShape, entered with numFrames frames counted
RECURSIVE SeekLoop(_, _)
SeekLoop(im, numFrames) ==
    IF Seek(im, numFrames + 1) THEN SeekLoop(im, numFrames + 1)
    ELSE numFrames + 1

GetShape(filename, disk) ==
    IF filename \notin DOMAIN disk.files THEN [status |-> "IOError"]
    ELSE LET im == disk.files[filename]
         IN  IF im.format \notin TifNames \cup GifNames
             THEN [status |-> "AssertionError"]
             \* a frame is one row of pixels: im.size = (pixels, 1)
             ELSE [status |-> "ok", numFrames |-> SeekLoop(im, 0),
                   w |-> 1, h |-> Len(im.frames[1])]

\* a name with every run of digits replaced by one sign
RECURSIVE NumKey(_)
NumKey(str) ==
    IF Len(str) = 0 THEN <<>>
    ELSE IF IsDigit(str[1])
         THEN <<"#">> \o NumKey(SubSeq(str, DigitRun(str) + 1, Len(str)))
    ELSE <<str[1]>> \o NumKey(Tail(str))

\* FilenameSort.getSortedListOfNumericalEquivalentFiles(filename, dir)
get_ne_files(filename, dir, disk) ==
    SortedNames({f \in DOMAIN disk.files :
                    /\ PathSplit(f).head = dir
                    /\ NumKey(PathSplit(f).tail) = NumKey(PathSplit(filename).tail)})

GetShapeMonolithicOrSequence(filename, disk) ==
    LET shape == GetShape(filename, disk)
        isSequence == shape.numFrames = 1
    IN  IF shape.status # "ok" THEN shape
        ELSE [status |-> "ok",
              numFrames |-> IF isSequence
                            THEN Len(get_ne_files(filename,
                                                  PathSplit(filename).head, disk))
                            ELSE shape.numFrames,
              w |-> shape.w, h |-> shape.h,
              isSequence |-> isSequence]

\* the frames LoadMonolithic collects from position pos on
RECURSIVE TellLoop(_, _)
TellLoop(im, pos) ==
    <<im.frames[pos + 1]>>
        \o (IF Seek(im, pos + 1) THEN TellLoop(im, pos + 1) ELSE <<>>)

LoadMonolithic(filename, disk, order) ==
    IF filename \notin DOMAIN disk.files THEN [status |-> "IOError"]
    ELSE LET im == disk.files[filename]
             datatype == GetDatatype(im.mode, DtypeOfMode(im.mode), order)
         IN  IF datatype.status # "ok" THEN [status |-> datatype.status]
             ELSE [status |-> "ok",
                   value |-> [dtype |-> IF datatype.value = None THEN "float64"
                                        ELSE datatype.value[1],
                              frames |-> TellLoop(im, 0)]]

\* storing a pixel in an array of the given dtype
CastPix(dtype, v) ==
    CASE dtype = "uint8" -> v % 256
      [] dtype = "uint16" -> v % 65536
      [] OTHER -> v

LoadMonolithicOrSequenceSpecial(filename, disk, order) ==
    LET shape == GetShapeMonolithicOrSequence(filename, disk)
        names == get_ne_files(filename, PathSplit(filename).head, disk)
        loaded == [i \in DOMAIN names |-> LoadSingle(names[i], disk, order)]
        t0 == loaded[1]
    IN  IF shape.status # "ok" THEN shape
        ELSE IF ~shape.isSequence THEN LoadMonolithic(filename, disk, order)
        ELSE IF Len(names) = 0 THEN [status |-> "ok", value |-> None]
        ELSE IF \E i \in DOMAIN loaded : loaded[i].status # "ok"
             THEN [status |-> loaded[CHOOSE i \in DOMAIN loaded :
                                  /\ loaded[i].status # "ok"
                                  /\ \A j \in 1..(i - 1) : loaded[j].status = "ok"].status]
        ELSE IF \E i \in DOMAIN loaded :
                    Len(loaded[i].value.pix) # Len(t0.value.pix)
             THEN [status |-> "ValueError"]
        ELSE [status |-> "ok",
              value |-> [dtype |-> t0.value.dtype,
                         frames |-> [i \in DOMAIN loaded |->
                                       [k \in DOMAIN loaded[i].value.pix |->
                                           CastPix(t0.value.dtype,
                                                   loaded[i].value.pix[k])]]]]


\* A directory d of 16-bit TIFF and 8-bit GIF files: each file of the pool
\* is absent or holds 1..MaxFileFrames frames; frame j of a file holds the
\* one pixel pix + j.
MaxFileFrames == 2

ShapePool ==
    <<[name |-> <<"d", "/", "a", "1", ".", "t", "i", "f">>, tif |-> TRUE, pix |-> 300],
      [name |-> <<"d", "/", "a", "2", ".", "t", "i", "f">>, tif |-> TRUE, pix |-> 400],
      [name |-> <<"d", "/", "a", "1", "0", ".", "t", "i", "f">>, tif |-> TRUE, pix |-> 500],
      [name |-> <<"d", "/", "b", "1", ".", "g", "i", "f">>, tif |-> FALSE, pix |-> 10],
      [name |-> <<"d", "/", "m", ".", "t", "i", "f">>, tif |-> TRUE, pix |-> 20]>>

PoolFile(e, count) ==
    [format |-> IF e.tif THEN <<"T", "I", "F", "F">> ELSE <<"G", "I", "F">>,
     mode |-> IF e.tif THEN "I;16" ELSE "L",
     frames |-> [j \in 1..count |-> <<e.pix + j>>]]

RECURSIVE PoolFiles(_, _)
PoolFiles(count, k) ==
    IF k > Len(ShapePool) THEN <<>>
    ELSE IF count[k] = 0 THEN PoolFiles(count, k + 1)
    ELSE (ShapePool[k].name :> PoolFile(ShapePool[k], count[k]))
             @@ PoolFiles(count, k + 1)

ShapeInit ==
    /\ call = NoCall
    /\ ret = NoRet
    /\ dirs = {<<"d">>}
    /\ \E count \in [1..Len(ShapePool) -> 0..MaxFileFrames] :
          files = PoolFiles(count, 1)

CallGetShapeMonolithicOrSequence ==
    /\ call = NoCall
    /\ \E filename \in DOMAIN files :
          /\ call' = [fn |-> "GetShapeMonolithicOrSequence",
                      filename |-> filename]
          /\ ret' = GetShapeMonolithicOrSequence(filename, Disk)
    /\ UNCHANGED <<files, dirs>>

CallLoadMonolithicOrSequenceSpecial ==
    /\ call = NoCall
    /\ \E filename \in DOMAIN files, order \in ByteOrders :
          /\ call' = [fn |-> "LoadMonolithicOrSequenceSpecial",
                      filename |-> filename]
          /\ ret' = LoadMonolithicOrSequenceSpecial(filename, Disk, order)
    /\ UNCHANGED <<files, dirs>>

ShapeNext ==
    \/ CallGetShapeMonolithicOrSequence
    \/ CallLoadMonolithicOrSequenceSpecial

SpecShape == ShapeInit /\ [][ShapeNext]_vars

\* the files of the same directory that differ from f only in their numbers
Equivalents(f) ==
    {g \in DOMAIN files :
        /\ PathSplit(g).head = PathSplit(f).head
        /\ NumKey(PathSplit(g).tail) = NumKey(PathSplit(f).tail)}

SingleFrame(f) == Len(files[f].frames) = 1

ClaimedNumFrames(f) ==
    IF SingleFrame(f) THEN Cardinality(Equivalents(f)) ELSE Len(files[f].frames)

\* C7: GetShapeMonolithicOrSequence reports isSequence exactly when the file
\* holds a single frame, and numFrames as the number of files numerically
\* equivalent to it (a sequence) or the file's own frame count (monolithic);
\* LoadMonolithicOrSequenceSpecial returns that many frames, in the order of
\* the sorted sequence files or of the file's own frames.
C7_MonolithicOrSequence ==
    /\ call.fn = "GetShapeMonolithicOrSequence" =>
          /\ ret.status = "ok"
          /\ ret.isSequence = SingleFrame(call.filename)
          /\ ret.numFrames = ClaimedNumFrames(call.filename)
    /\ call.fn = "LoadMonolithicOrSequenceSpecial" =>
          /\ ret.status = "ok"
          /\ Len(ret.value.frames) = ClaimedNumFrames(call.filename)
          /\ IF SingleFrame(call.filename)
             THEN LET names == SortedNames(Equivalents(call.filename))
                  IN  \A i \in DOMAIN ret.value.frames :
                          /\ ret.value.frames[i] = files[names[i]].frames[1]
                          /\ \A j \in 1..(i - 1) : NameLess(names[j], names[i])
             ELSE ret.value.frames = files[call.filename].frames

\* a sequence of three files was loaded through one of them
C7_SequenceLoaded ==
    /\ call.fn = "LoadMonolithicOrSequenceSpecial"
    /\ ret.status = "ok"
    /\ SingleFrame(call.filename)
    /\ Len(ret.value.frames) = 3


\* ------------------------------------------------------------------
\* LoadGroupedZCroppedByTxtInput
\* ------------------------------------------------------------------

\* str.replace(' ', '')
RemoveSpaces(str) == SelectSeq(str, LAMBDA c : c # " ")

\* map(int, line.replace(' ','').split(':')[1].split('-'))
ParseStartStop(line) ==
    LET parts == Split(RemoveSpaces(line), ":")
        fields == Split(parts[2], "-")
        nums == [k \in DOMAIN fields |-> PyInt(fields[k])]
    IN  IF Len(parts) < 2 THEN [status |-> "IndexError"]
        ELSE IF \E k \in DOMAIN nums : nums[k] = None
             THEN [status |-> "ValueError"]
        ELSE [status |-> "ok", p |-> [k \in DOMAIN nums |-> nums[k][1]]]

\* seq[a:b] for a, b >= 0, cutting one element short
PySliceShort(seq, a, b) == SubSeq(seq, a + 1, IntMin(b, Len(seq)) - 1)

\* seq[a:b] for a, b >= 0
PySlice(seq, a, b) == SubSeq(seq, a + 1, IntMin(b, Len(seq)))

\* "*_" + str(i) + "_*PMT1.TIF"
GroupGlob(i) ==
    <<"*", "_">> \o StrOfNat(i)
        \o <<"_", "*", "P", "M", "T", "1", ".", "T", "I", "F">>

RECURSIVE SeqSum(_)
SeqSum(seq) == IF Len(seq) = 0 THEN 0 ELSE seq[1] + SeqSum(Tail(seq))

MergeOperations == {"mean", "max", "min", "sum"}

\* stack.<op>(axis=0): [scalar, pix], or None for the ValueError that max
\* and min of an empty array raise
MergeStack(stack, op) ==
    IF Len(stack) = 0
    THEN CASE op = "sum" -> Some([scalar |-> TRUE, pix |-> <<0>>])
           [] op = "mean" -> Some([scalar |-> TRUE, pix |-> <<FNan>>])
           [] OTHER -> None
    ELSE Some([scalar |-> FALSE,
               pix |-> [q \in DOMAIN stack[1] |->
                   LET column == [j \in DOMAIN stack |-> stack[j][q]]
                   IN  CASE op = "sum" -> SeqSum(column)
                         [] op = "mean" -> FDiv(SeqSum(column), Len(column))
                         [] op = "max" -> ArrMax(column)
                         [] OTHER -> ArrMin(column)]])

\* [LoadSingle(f) for f in names]
RECURSIVE LoadAll(_, _, _)
LoadAll(names, disk, order) ==
    IF Len(names) = 0 THEN <<>>
    ELSE <<LoadSingle(names[1], disk, order)>> \o LoadAll(Tail(names), disk, order)

\* one pass of the loop of lines 448-454: the frames of stack i picked by
\* p, or the error raised on the way
LoadStack(dirname, i, p, disk, order) ==
    LET listing == getSortedListOfFiles(dirname, GroupGlob(i), disk)
        loaded == LoadAll(PySlice(listing, p[1], p[2] + 1), disk, order)
    IN  IF Len(p) < 2 THEN [status |-> "IndexError"]
        ELSE IF \E j \in DOMAIN loaded : loaded[j].status # "ok"
             THEN [status |-> loaded[CHOOSE j \in DOMAIN loaded :
                                  /\ loaded[j].status # "ok"
                                  /\ \A m \in 1..(j - 1) : loaded[m].status = "ok"].status]
        ELSE [status |-> "ok",
              frames |-> [j \in DOMAIN loaded |-> loaded[j].value.pix]]

\* the loop from stack i on
RECURSIVE LoadStacks(_, _, _, _, _)
LoadStacks(dirname, StartStop, i, disk, order) ==
    IF i >= Len(StartStop) THEN <<>>
    ELSE <<LoadStack(dirname, i, StartStop[i + 1], disk, order)>>
             \o LoadStacks(dirname, StartStop, i + 1, disk, order)

\* map(int, ...) over the lines of the text
RECURSIVE ParseLines(_)
ParseLines(lines) ==
    IF Len(lines) = 0 THEN <<>>
    ELSE <<ParseStartStop(lines[1])>> \o ParseLines(Tail(lines))

\* the first status other than ok in a sequence of results, ok if none
FirstError(results) ==
    IF \E k \in DOMAIN results : results[k].status # "ok"
    THEN results[CHOOSE k \in DOMAIN results :
                     /\ results[k].status # "ok"
                     /\ \A m \in 1..(k - 1) : results[m].status = "ok"].status
    ELSE "ok"

LoadGroupedZCroppedByTxtInput(dirname, StartStopTxt, mergeOperation, disk, order) ==
    LET parsed == ParseLines(Split(StartStopTxt, "\n"))
        StartStop == [k \in DOMAIN parsed |-> parsed[k].p]
        stacks == LoadStacks(dirname, StartStop, 0, disk, order)
        merged == [k \in DOMAIN stacks |->
                      MergeStack(stacks[k].frames, mergeOperation[1])]
    IN  IF FirstError(parsed) # "ok" THEN [status |-> FirstError(parsed)]
        ELSE IF FirstError(stacks) # "ok" THEN [status |-> FirstError(stacks)]
        ELSE IF mergeOperation # None /\ mergeOperation[1] \in MergeOperations
             THEN IF \E k \in DOMAIN stacks : merged[k] = None
                  THEN [status |-> "ValueError"]
                  ELSE [status |-> "ok", kind |-> "array",
                        value |-> [k \in DOMAIN stacks |-> merged[k][1]]]
        ELSE [status |-> "ok", kind |-> "list",
              value |-> [k \in DOMAIN stacks |-> stacks[k].frames]]

\* A directory d holding, for each group g, the first 0..MaxGroupFiles of
\* the files d/s_g_00jPMT1.TIF, file j of group g holding the one pixel
\* (g + 1) * (j * j + 1); StartStopTxt has one or two lines 'n: a-b', the
\* first numbered 0 or 7 and the second 1.
MaxGroupFiles == 3
MaxPos == 2
GroupIds == {0, 1}
LineNumbers == {0, 7}

GroupName(g, j) ==
    <<"d", "/", "s", "_">> \o StrOfNat(g) \o <<"_">> \o Pad3(j)
        \o <<"P", "M", "T", "1", ".", "T", "I", "F">>

GroupFile(g, j) ==
    [format |-> <<"T", "I", "F", "F">>, mode |-> "I;16",
     frames |-> <<<<(g + 1) * (j * j + 1)>>>>]

RECURSIVE GroupFiles(_, _)
GroupFiles(count, S) ==
    IF S = {} THEN <<>>
    ELSE LET q == CHOOSE q \in S : TRUE
         IN  IF q[2] < count[q[1]]
             THEN (GroupName(q[1], q[2]) :> GroupFile(q[1], q[2]))
                      @@ GroupFiles(count, S \ {q})
             ELSE GroupFiles(count, S \ {q})

\* the text of a line 'n: a-b', and of several lines
LineText(l) ==
    StrOfNat(l[1]) \o <<":", " ">> \o StrOfNat(l[2]) \o <<"-">> \o StrOfNat(l[3])

RECURSIVE JoinLines(_)
JoinLines(ls) ==
    IF Len(ls) = 1 THEN LineText(ls[1])
    ELSE LineText(ls[1]) \o <<"\n">> \o JoinLines(Tail(ls))

GroupedInit ==
    /\ call = NoCall
    /\ ret = NoRet
    /\ dirs = {<<"d">>}
    /\ \E count \in [GroupIds -> 0..MaxGroupFiles] :
          files = GroupFiles(count, GroupIds \X (0..(MaxGroupFiles - 1)))

CallLoadGroupedZCroppedByTxtInput ==
    /\ call = NoCall
    /\ \E n \in {1, 2} :
         \E ls \in {l \in [1..n -> (LineNumbers \cup {1}) \X (0..MaxPos) \X (0..MaxPos)] :
                        /\ l[1][1] \in LineNumbers
                        /\ \A k \in 2..n : l[k][1] = k - 1},
            mergeOperation \in {None, Some("median")}
                                  \cup {Some(op) : op \in MergeOperations},
            order \in ByteOrders :
              /\ call' = [fn |-> "LoadGroupedZCroppedByTxtInput",
                          dirname |-> <<"d">>, lines |-> ls,
                          StartStopTxt |-> JoinLines(ls),
                          mergeOperation |-> mergeOperation]
              /\ ret' = LoadGroupedZCroppedByTxtInput(<<"d">>, JoinLines(ls),
                                                      mergeOperation, Disk, order)
    /\ UNCHANGED <<files, dirs>>

GroupedNext == CallLoadGroupedZCroppedByTxtInput

SpecGrouped == GroupedInit /\ [][GroupedNext]_vars


GroupedCalled == call.fn = "LoadGroupedZCroppedByTxtInput"

Merging ==
    call.mergeOperation # None /\ call.mergeOperation[1] \in MergeOperations

SetMin(S) == CHOOSE x \in S : \A y \in S : x <= y

\* the frames of the files at positions a..b (counted from 0) of the sorted
\* files matching '*_k_*PMT1.TIF', for line k + 1 = 'n: a-b'
Selected(k) ==
    LET matching == SortedNames(Listing(call.dirname, GroupGlob(k)))
        a == call.lines[k + 1][2]
        b == call.lines[k + 1][3]
        last == IntMin(b, Len(matching) - 1)
    IN  [i \in 1..IntMax(0, last - a + 1) |-> files[matching[a + i]].frames[1]]

\* a non-empty stack of frames reduced along its file axis
ClaimedMerge(op, frames) ==
    [scalar |-> FALSE,
     pix |-> [q \in DOMAIN frames[1] |->
                LET vals == {frames[j][q] : j \in DOMAIN frames}
                    total == SeqSum([j \in DOMAIN frames |-> frames[j][q]])
                IN  CASE op = "sum" -> total
                      [] op = "mean" -> FDiv(total, Len(frames))
                      [] op = "max" -> SetMax(vals)
                      [] OTHER -> SetMin(vals)]]

GroupedAsClaimed ==
    /\ ret.status = "ok"
    /\ Len(ret.value) = Len(call.lines)
    /\ \A k \in 0..(Len(call.lines) - 1) :
          IF Merging
          THEN Len(Selected(k)) > 0 =>
                   ret.value[k + 1] = ClaimedMerge(call.mergeOperation[1], Selected(k))
          ELSE ret.value[k + 1] = Selected(k)

\* C10 as stated: the k-th line 'n: a-b' selects the files at positions a..b
\* of the sorted files matching '*_k_*PMT1.TIF', whatever n is, one stack
\* for each line; mean, max, min and sum reduce each stack along its file
\* axis, and None or any other value returns the list of stacks unreduced.
C10_AsStated == GroupedCalled => GroupedAsClaimed

\* C10: the same, for merges in which every line selects at least one file.
C10_GroupedLoad ==
    (/\ GroupedCalled
     /\ Merging => \A k \in 0..(Len(call.lines) - 1) : Len(Selected(k)) > 0)
        => GroupedAsClaimed

\* two stacks of two frames or more were averaged
C10_TwoStacksAveraged ==
    /\ GroupedCalled
    /\ call.mergeOperation = Some("mean")
    /\ Len(call.lines) = 2
    /\ call.lines[1][1] # 0
    /\ \A k \in 0..1 : Len(Selected(k)) >= 2
    /\ ret.status = "ok"

====
